---- MODULE Spec2Model ----
(***************************************************************************)
(* Subscription reconciliation of saas-calculator-backend: the Stripe      *)
(* webhook endpoints, the customer cancel / resume actions and the usage   *)
(* meter of calculation creation, over the Subscription table.             *)
(*                                                                         *)
(* Time is counted in calendar months since an epoch: Date.getMonth() of   *)
(* a time t is t % 12, and two times lie in the same calendar period when  *)
(* they are equal.                                                         *)
(***************************************************************************)
EXTENDS Integers, Sequences, FiniteSets, TLC

VARIABLES
    subs,           \* the Subscription table: userId -> row (userId is UNIQUE)
    calcs,          \* the Calculation table: userId -> number of rows
    now,            \* Date.now(), in months
    gw,             \* the gateway's subscriptions: userId -> canonical snapshot
    outbox,         \* the events the gateway has emitted; an event's id is its index
    webhookSecret,  \* process.env.STRIPE_WEBHOOK_SECRET
    endpoint,       \* the webhook endpoint registered with the gateway
    reqs,           \* the authenticated requests in flight: slot -> request
    last,           \* the response of the request that finished last
    applied,        \* history: event id -> times a case of the switch ran for it to the end
    admitted,       \* history: userId -> creations admitted since the last Tick
    resets,         \* history: userId -> usage resets since the last Tick
    users,          \* the User table: userId -> stripeCustomerId ("" when NULL)
    customers,      \* the gateway's customers: userId of the metadata -> customers created
    store,          \* the rate limiter's store: identifier -> { count, resetTime }
    minute,         \* Date.now() of the rate limiter, in minutes
    windows         \* history: identifier -> the window open for it and the requests
                    \* passed on in it

vars == <<subs, calcs, now, gw, outbox, webhookSecret, endpoint, users, customers, store,
          minute, windows, reqs, last, applied, admitted, resets>>

---------------------------------------------------------------------------
(* Bounds of the model *)

MaxNow == 2
MaxMeterNow == 13
MaxMonth == 1
MaxEvents == 2
MaxApply == 2
MaxCalcs == 4
MaxInFlight == 2
MaxMinute == 5
MaxOver == 2

---------------------------------------------------------------------------
(* Values *)

Users == {"u1"}

\* a nullable TIMESTAMP column holding NULL
Null == -1

\* CREATE TYPE "Plan" / "Status"
PlanEnum == {"FREE", "PRO", "TEAM", "ENTERPRISE"}
StatusEnum == {"ACTIVE", "CANCELED", "CANCELLED", "CANCELLING", "PAST_DUE",
               "UNPAID", "TRIALING", "INACTIVE"}

\* Date.prototype.getMonth
getMonth(t) == t % 12

\* 30 * 24 * 60 * 60 * 1000 ms, in months
ThirtyDays == 1

\* String.prototype.toUpperCase on the gateway's status strings
toUpperCase(s) ==
    CASE s = "active" -> "ACTIVE"
      [] s = "canceled" -> "CANCELED"
      [] s = "past_due" -> "PAST_DUE"
      [] s = "trialing" -> "TRIALING"
      [] s = "unpaid" -> "UNPAID"
      [] s = "incomplete" -> "INCOMPLETE"
      [] OTHER -> s

\* the gateway's subscription id of a user, and the id a provisioned row holds
SubIdOf(u) == <<"sub", u>>
SeedSubId(u) == <<"seed", u>>

GwStatuses == {"active", "canceled", "past_due", "trialing", "unpaid", "incomplete"}
GwPrices == {"price_ent", "price_x"}

\* process.env.STRIPE_PRICE_ID_PRO / _TEAM / _ENTERPRISE
STRIPE_PRICE_ID_PRO == "price_pro"
STRIPE_PRICE_ID_TEAM == "price_team"
STRIPE_PRICE_ID_ENTERPRISE == "price_ent"

---------------------------------------------------------------------------
(* The Subscription table *)

\* a row as the schema's column defaults leave it, the NOT NULL columns given
DefaultRow(sid, price, cps, cpe) ==
    [ stripeSubscriptionId |-> sid,
      stripePriceId |-> price,
      plan |-> "FREE",
      status |-> "ACTIVE",
      currentPeriodStart |-> cps,
      currentPeriodEnd |-> cpe,
      cancelAtPeriodEnd |-> FALSE,
      calculationsUsed |-> 0,
      calculationsLimit |-> 3,
      apiCallsUsed |-> 0,
      apiCallsLimit |-> 0,
      canceledAt |-> Null,
      lastPaymentAt |-> Null ]

\* the outcome of a store call: the table after it, or a thrown error
Done(t) == [ok |-> TRUE, subs |-> t]
Thrown(t) == [ok |-> FALSE, subs |-> t]

\* the rows a where: { stripeSubscriptionId } clause selects
RowsOfSubId(t, sid) == {u \in DOMAIN t : t[u].stripeSubscriptionId = sid}

\* a row with the columns of data set
Patch(row, data) == [f \in DOMAIN row |-> IF f \in DOMAIN data THEN data[f] ELSE row[f]]

\* the update without its where clause
updateManyEveryRow(t, sid, data) ==
    Done([u \in DOMAIN t |-> Patch(t[u], data)])

\* prisma.subscription.updateMany({ where: { stripeSubscriptionId }, data }):
\* every matching row gets data; no match is no error
updateMany(t, sid, data) ==
    Done([u \in DOMAIN t |-> IF t[u].stripeSubscriptionId = sid THEN Patch(t[u], data) ELSE t[u]])

\* prisma.subscription.update({ where: { stripeSubscriptionId }, data }):
\* throws when no row matches
updateUnique(t, sid, data) ==
    IF RowsOfSubId(t, sid) = {} THEN Thrown(t) ELSE updateMany(t, sid, data)

\* the columns of a written row hold values of their enum types, and
\* stripeSubscriptionId stays UNIQUE
RowValid(t, u, row) ==
    /\ row.plan \in PlanEnum
    /\ row.status \in StatusEnum
    /\ \A v \in DOMAIN t \ {u} : t[v].stripeSubscriptionId # row.stripeSubscriptionId

\* the table with u's row set to row, or a thrown error when the store rejects it
WriteRow(t, u, row) ==
    IF RowValid(t, u, row)
    THEN Done([v \in DOMAIN t \cup {u} |-> IF v = u THEN row ELSE t[v]])
    ELSE Thrown(t)

\* The table is keyed by its rows; a user's row has the user as its key, and a
\* second row of the same user, which only a table without the UNIQUE
\* constraint can hold, the key SecondRow[user].
SecondRow == [u \in Users |-> "second row"]

UserOf(k) == IF k \in Users THEN k ELSE CHOOSE u \in Users : SecondRow[u] = k

\* the constraint without effect
UniqueUserIdDropped(t, u) == TRUE

\* "userId" TEXT UNIQUE NOT NULL: no row of the table has the userId
UniqueUserId(t, u) == \A k \in DOMAIN t : UserOf(k) # u

\* INSERT of a row for u: rejected when a constraint fails
Insert(t, u, row) ==
    IF UniqueUserId(t, u) /\ RowValid(t, u, row)
    THEN LET key == IF u \in DOMAIN t THEN SecondRow[u] ELSE u
         IN Done([k \in DOMAIN t \cup {key} |-> IF k = key THEN row ELSE t[k]])
    ELSE Thrown(t)

---------------------------------------------------------------------------
(* Plan catalog *)

planMapping(priceId) ==
    CASE priceId = STRIPE_PRICE_ID_PRO ->
            [plan |-> "PRO", calculationsLimit |-> 999999, apiCallsLimit |-> 1000]
      [] priceId = STRIPE_PRICE_ID_TEAM ->
            [plan |-> "TEAM", calculationsLimit |-> 999999, apiCallsLimit |-> 5000]
      [] priceId = STRIPE_PRICE_ID_ENTERPRISE ->
            [plan |-> "ENTERPRISE", calculationsLimit |-> 999999, apiCallsLimit |-> 999999]
      [] OTHER ->
            [plan |-> "PRO", calculationsLimit |-> 999999, apiCallsLimit |-> 1000]

\* const PLANS of the subscription routes: the limits of each of its plans
PLANS ==
    [ FREE |-> [limits |-> [calculations |-> 5, apiCalls |-> 0]],
      PROFESSIONAL |-> [limits |-> [calculations |-> -1, apiCalls |-> 1000]],
      ENTERPRISE |-> [limits |-> [calculations |-> -1, apiCalls |-> -1]] ]

---------------------------------------------------------------------------
(* billing.routes.ts: the handlers of /webhook *)

\* the upsert with an update branch that leaves the row's plan as it is
createOrUpdateSubscriptionKeepsPlan(t, userId, subscription) ==
    LET priceId == subscription.price
        planConfig == planMapping(priceId)
        gatewayFields(row) ==
            [row EXCEPT !.stripeSubscriptionId = subscription.id,
                        !.stripePriceId = priceId,
                        !.status = toUpperCase(subscription.status),
                        !.currentPeriodStart = subscription.current_period_start,
                        !.currentPeriodEnd = subscription.current_period_end,
                        !.cancelAtPeriodEnd = subscription.cancel_at_period_end,
                        !.calculationsLimit = planConfig.calculationsLimit,
                        !.apiCallsLimit = planConfig.apiCallsLimit]
    IN IF userId \in DOMAIN t
       THEN WriteRow(t, userId, gatewayFields(t[userId]))
       ELSE WriteRow(t, userId,
                     [gatewayFields(DefaultRow(subscription.id, priceId,
                                               subscription.current_period_start,
                                               subscription.current_period_end))
                         EXCEPT !.plan = planConfig.plan])

\* prisma.subscription.upsert({ where: { userId }, update, create })
createOrUpdateSubscription(t, userId, subscription) ==
    LET priceId == subscription.price
        planConfig == planMapping(priceId)
        gatewayFields(row) ==
            [row EXCEPT !.stripeSubscriptionId = subscription.id,
                        !.stripePriceId = priceId,
                        !.plan = planConfig.plan,
                        !.status = toUpperCase(subscription.status),
                        !.currentPeriodStart = subscription.current_period_start,
                        !.currentPeriodEnd = subscription.current_period_end,
                        !.cancelAtPeriodEnd = subscription.cancel_at_period_end,
                        !.calculationsLimit = planConfig.calculationsLimit,
                        !.apiCallsLimit = planConfig.apiCallsLimit]
    IN IF userId \in DOMAIN t
       THEN WriteRow(t, userId, gatewayFields(t[userId]))
       ELSE WriteRow(t, userId,
                     gatewayFields(DefaultRow(subscription.id, priceId,
                                              subscription.current_period_start,
                                              subscription.current_period_end)))

\* An event e of the gateway: e.type; e.sub, the subscription snapshot its
\* data.object is or refers to (session.subscription, invoice.subscription,
\* session.customer = e.sub.customer); e.userId and e.plan, the metadata of a
\* checkout session ("" when absent).

\* stripe.subscriptions.retrieve(id): the gateway's current snapshot
retrieve(g, sub) == g[sub.customer]

handleCheckoutComplete(t, g, e) ==
    IF e.userId = "" THEN Done(t)
    ELSE createOrUpdateSubscription(t, e.userId, retrieve(g, e.sub))

\* stripe.customers.retrieve(subscription.customer).metadata.userId
handleSubscriptionUpdate(t, e) ==
    IF e.sub.customer = "" THEN Done(t)
    ELSE createOrUpdateSubscription(t, e.sub.customer, e.sub)

\* the handler upserting like handleSubscriptionUpdate
handleSubscriptionCanceledUpserts(t, e) ==
    createOrUpdateSubscription(t, e.sub.customer, e.sub)

handleSubscriptionCanceled(t, e) ==
    updateUnique(t, e.sub.id, [status |-> "CANCELED"])

handlePaymentFailed(t, e) ==
    updateUnique(t, e.sub.id, [status |-> "PAST_DUE"])

\* the event types the switch of router.post('/webhook') has a case for
BillingCases == {"checkout.session.completed", "customer.subscription.created",
                 "customer.subscription.updated", "customer.subscription.deleted",
                 "invoice.payment_failed"}

BillingSwitch(t, g, e) ==
    CASE e.type = "checkout.session.completed" -> handleCheckoutComplete(t, g, e)
      [] e.type \in {"customer.subscription.created", "customer.subscription.updated"} ->
            handleSubscriptionUpdate(t, e)
      [] e.type = "customer.subscription.deleted" -> handleSubscriptionCanceled(t, e)
      [] e.type = "invoice.payment_failed" -> handlePaymentFailed(t, e)
      [] OTHER -> Done(t)

---------------------------------------------------------------------------
(* webhook.routes.ts: the switch of /stripe *)

StripeCases == {"checkout.session.completed", "customer.subscription.updated",
                "customer.subscription.deleted", "invoice.payment_succeeded",
                "invoice.payment_failed"}

\* case 'checkout.session.completed': the upsert by userId. Its create branch
\* gives no stripePriceId and no currentPeriodStart, which are NOT NULL and have
\* no default, so the store rejects it.
StripeCheckout(t, e, clock) ==
    LET plan == IF e.plan = "" THEN "PROFESSIONAL" ELSE e.plan
    IN IF e.sub.customer = "" \/ e.userId = "" THEN Done(t)
       ELSE IF e.userId \in DOMAIN t
       THEN WriteRow(t, e.userId,
                     [t[e.userId] EXCEPT !.stripeSubscriptionId = e.sub.id,
                                         !.plan = plan,
                                         !.status = "ACTIVE",
                                         !.currentPeriodEnd = clock + ThirtyDays])
       ELSE Thrown(t)

StripeSubscriptionUpdated(t, e) ==
    updateMany(t, e.sub.id,
               [status |-> IF e.sub.status = "active" THEN "ACTIVE"
                           ELSE IF e.sub.status = "canceled" THEN "CANCELLED"
                           ELSE IF e.sub.status = "past_due" THEN "PAST_DUE"
                           ELSE "INACTIVE",
                currentPeriodEnd |-> e.sub.current_period_end])

StripeSubscriptionDeleted(t, e, clock) ==
    updateMany(t, e.sub.id, [status |-> "CANCELLED", canceledAt |-> clock])

StripePaymentSucceeded(t, e, clock) ==
    updateMany(t, e.sub.id, [status |-> "ACTIVE", lastPaymentAt |-> clock])

\* the case writing a second column
StripePaymentFailedClearsCanceledAt(t, e) ==
    updateMany(t, e.sub.id, [status |-> "PAST_DUE", canceledAt |-> Null])

StripePaymentFailed(t, e) ==
    updateMany(t, e.sub.id, [status |-> "PAST_DUE"])

StripeSwitch(t, e, clock) ==
    CASE e.type = "checkout.session.completed" -> StripeCheckout(t, e, clock)
      [] e.type = "customer.subscription.updated" -> StripeSubscriptionUpdated(t, e)
      [] e.type = "customer.subscription.deleted" -> StripeSubscriptionDeleted(t, e, clock)
      [] e.type = "invoice.payment_succeeded" -> StripePaymentSucceeded(t, e, clock)
      [] e.type = "invoice.payment_failed" -> StripePaymentFailed(t, e)
      [] OTHER -> Done(t)

\* the Vercel function's switch: its cases only log
VercelCases == {"checkout.session.completed", "payment_intent.succeeded"}

---------------------------------------------------------------------------
(* Webhook ingress *)

\* the app's mount points, the billing router taken alone, the Vercel function
EpStripe == "/api/webhooks/stripe"
EpBillingApp == "/api/billing/webhook"
EpBilling == "billing.routes /webhook"
EpVercel == "api/webhook"
Endpoints == {EpStripe, EpBillingApp, EpBilling, EpVercel}

\* a signature header: <<>> when missing, else the HMAC of a payload under a key
Sign(payload, key) == <<payload, key>>

\* what reaches the route as req.body: app.ts parses every body with
\* express.json() except under /api/webhooks/stripe, where express.raw() keeps
\* the bytes; the route's own express.raw() leaves a parsed body as it is
BodyAt(ep, payload) == [raw |-> ep # EpBillingApp, payload |-> payload]

\* stripe.webhooks.constructEvent(body, sig, secret): TRUE when it returns the
\* event, FALSE when it throws
constructEvent(body, sig, secret) ==
    /\ secret # ""
    /\ body.raw
    /\ sig = Sign(body.payload, secret)

\* the cases of an endpoint's switch
CasesOf(ep) ==
    CASE ep = EpStripe -> StripeCases
      [] ep = EpVercel -> VercelCases
      [] OTHER -> BillingCases

\* the switch of an endpoint on a verified event
SwitchOf(ep, t, g, e, clock) ==
    CASE ep = EpStripe -> StripeSwitch(t, e, clock)
      [] ep = EpVercel -> Done(t)
      [] OTHER -> BillingSwitch(t, g, e)

\* the statuses a thrown handler error can end in: /webhook passes the error
\* to the error middleware; /stripe has no try/catch, so the handler's promise
\* is rejected, which Express 4 does not observe (the request stays unanswered,
\* 0) and Express 5 passes to the error middleware
ThrownCodes(ep) == IF ep = EpStripe THEN {0, 500} ELSE {500}

\* the Vercel function acknowledges every POST while no secret is configured
AcksUnverified(ep, secret) == ep = EpVercel /\ secret = ""

\* the answer to a request: the endpoint, the HTTP status (0: none is sent) and,
\* for a webhook, whether constructEvent returned the event
Response(ep, code, verified) == [ep |-> ep, code |-> code, verified |-> verified]

NoResponse == Response("", 0, FALSE)

\* no authenticated request is in flight: the gateway's events, the webhooks and
\* the clock are taken between requests
Quiescent == \A s \in DOMAIN reqs : reqs[s].pc = "idle"

\* a POST to a webhook endpoint carrying event id's envelope, payload and sig
Webhook(ep, id, payload, sig) ==
    LET body == BodyAt(ep, payload)
        verified == constructEvent(body, sig, webhookSecret)
        r == SwitchOf(ep, subs, gw, payload, now)
        runs == verified /\ payload.type \in CasesOf(ep)
    IN /\ Quiescent
       /\ runs => applied[id] < MaxApply
       /\ IF AcksUnverified(ep, webhookSecret)
          THEN /\ last' = Response(ep, 200, FALSE)
               /\ UNCHANGED <<subs, applied>>
          ELSE IF ~verified
          THEN /\ last' = Response(ep, 400, FALSE)
               /\ UNCHANGED <<subs, applied>>
          ELSE /\ subs' = r.subs
               /\ \E code \in IF r.ok THEN {200} ELSE ThrownCodes(ep) :
                     last' = Response(ep, code, TRUE)
               /\ applied' = IF runs /\ r.ok THEN [applied EXCEPT ![id] = @ + 1] ELSE applied
       /\ UNCHANGED <<calcs, now, gw, outbox, webhookSecret, endpoint,
                    users, customers, store, minute, windows, reqs, admitted, resets>>

\* a body other than the one the gateway signed
Tampered(e) ==
    [e EXCEPT !.type = IF e.type = "customer.subscription.deleted"
                       THEN "invoice.payment_succeeded"
                       ELSE "customer.subscription.deleted"]

\* the gateway delivers (or redelivers, in any order) one of its events
Deliver(id) ==
    /\ id \in 1..Len(outbox)
    /\ Webhook(endpoint, id, outbox[id], Sign(outbox[id], "whsec"))

\* a request of anyone else: the signature missing, made with another key, or
\* taken from the gateway's delivery of the event and put on another body
Forge(id) ==
    /\ id \in 1..Len(outbox)
    /\ \E payload \in {outbox[id], Tampered(outbox[id])} :
       \E sig \in {<<>>, Sign(payload, "forged"), Sign(outbox[id], "whsec")} :
          /\ sig # Sign(payload, "whsec")
          /\ Webhook(endpoint, id, payload, sig)

---------------------------------------------------------------------------
(* The gateway: it changes a subscription and emits one event about it *)

Snapshot(u, status, price, cps, cpe, cape) ==
    [ id |-> SubIdOf(u), customer |-> u, status |-> status, price |-> price,
      current_period_start |-> cps, current_period_end |-> cpe,
      cancel_at_period_end |-> cape ]

Event(type, sub, userId, plan) ==
    [type |-> type, sub |-> sub, userId |-> userId, plan |-> plan]

Emit(e) ==
    /\ Quiescent
    /\ Len(outbox) < MaxEvents
    /\ outbox' = Append(outbox, e)

\* a checkout session of u completes: the gateway opens the subscription. The
\* session's metadata is { userId } (billing.routes create-checkout) or
\* { userId, plan } (the subscription routes' create-checkout)
GwCheckout(u, price, plan) ==
    LET sub == Snapshot(u, "active", price, now, now + 1, FALSE)
    IN /\ u \notin DOMAIN gw
       /\ gw' = [v \in DOMAIN gw \cup {u} |-> IF v = u THEN sub ELSE gw[v]]
       /\ Emit(Event("checkout.session.completed", sub, u, plan))
       /\ UNCHANGED <<subs, calcs, now, webhookSecret, endpoint,
                    users, customers, store, minute, windows, reqs, last, applied, admitted, resets>>

\* the gateway changes the subscription's status
GwUpdate(u, status) ==
    /\ u \in DOMAIN gw
    /\ status # "canceled"
    /\ gw[u].status \notin {status, "canceled"}
    /\ gw' = [gw EXCEPT ![u].status = status]
    /\ Emit(Event("customer.subscription.updated", gw'[u], "", ""))
    /\ UNCHANGED <<subs, calcs, now, webhookSecret, endpoint,
                    users, customers, store, minute, windows, reqs, last, applied, admitted, resets>>

\* an invoice of the subscription is paid (the period renews) or fails
GwInvoice(u, paid) ==
    /\ u \in DOMAIN gw
    /\ gw[u].status # "canceled"
    /\ gw' = IF paid
             THEN [gw EXCEPT ![u].status = "active",
                             ![u].current_period_start = now,
                             ![u].current_period_end = now + 1]
             ELSE [gw EXCEPT ![u].status = "past_due"]
    /\ Emit(Event(IF paid THEN "invoice.payment_succeeded" ELSE "invoice.payment_failed",
                  gw'[u], "", ""))
    /\ UNCHANGED <<subs, calcs, now, webhookSecret, endpoint,
                    users, customers, store, minute, windows, reqs, last, applied, admitted, resets>>

\* the subscription ends
GwDelete(u) ==
    /\ u \in DOMAIN gw
    /\ gw[u].status # "canceled"
    /\ gw' = [gw EXCEPT ![u].status = "canceled"]
    /\ Emit(Event("customer.subscription.deleted", gw'[u], "", ""))
    /\ UNCHANGED <<subs, calcs, now, webhookSecret, endpoint,
                    users, customers, store, minute, windows, reqs, last, applied, admitted, resets>>

\* an event of a type no endpoint handles for the subscription table
GwOther(u) ==
    /\ u \in DOMAIN gw
    /\ Emit(Event("payment_intent.succeeded", gw[u], "", ""))
    /\ UNCHANGED <<subs, calcs, now, gw, webhookSecret, endpoint,
                    users, customers, store, minute, windows, reqs, last, applied, admitted, resets>>

---------------------------------------------------------------------------
(* Time *)

\* a month passes, or a year
Tick(d, max) ==
    /\ Quiescent
    /\ now + d <= max
    /\ now' = now + d
    /\ admitted' = [u \in Users |-> 0]
    /\ resets' = [u \in Users |-> 0]
    /\ UNCHANGED <<subs, calcs, gw, outbox, webhookSecret, endpoint,
                    users, customers, store, minute, windows, reqs, last, applied>>

\* the clock of the usage meter's specifications: the months up to MaxMonth of a
\* year, and the same months of the next year
MeterTick(d) ==
    /\ d = 1 => getMonth(now) < MaxMonth
    /\ Tick(d, MaxMeterNow)

---------------------------------------------------------------------------
(* Initial states: the table as provisioned before the process starts *)

\* calculationsLimit of a provisioned FREE row: the column default, or the
\* unlimited sentinel
SeedLimits == {3, -1}

FreeRow(u, limit) ==
    [DefaultRow(SeedSubId(u), "price_free", 0, 1) EXCEPT !.calculationsLimit = limit]

PaidSnapshot(u) == Snapshot(u, "active", STRIPE_PRICE_ID_PRO, 0, 1, FALSE)

\* a subscription flagged to end with its period, and its row as /cancel
\* is written to leave it
CancellingSnapshot(u) == [PaidSnapshot(u) EXCEPT !.cancel_at_period_end = TRUE]

CancellingRow(u) ==
    [createOrUpdateSubscription(<<>>, u, CancellingSnapshot(u)).subs[u]
        EXCEPT !.status = "CANCELLING", !.canceledAt = 0]

\* the (table, gateway) pairs a run starts from: no row; a FREE row; the row
\* createOrUpdateSubscription writes for a subscription the gateway holds; a
\* row in status CANCELLING
Seeds ==
    LET u == CHOOSE v \in Users : TRUE
        none == <<>>
    IN {<<none, none>>}
       \cup {<<(u :> FreeRow(u, l)), none>> : l \in SeedLimits}
       \cup {<<createOrUpdateSubscription(none, u, PaidSnapshot(u)).subs,
               (u :> PaidSnapshot(u))>>}
       \cup {<<(u :> CancellingRow(u)), (u :> CancellingSnapshot(u))>>}

IdleReq ==
    [pc |-> "idle", kind |-> "", user |-> "", userId |-> "", found |-> <<>>, at |-> 0,
     sub |-> <<>>, pre |-> <<>>]

InitCommon ==
    /\ calcs = [u \in Users |-> 0]
    /\ now = 0
    /\ outbox = <<>>
    /\ reqs = [s \in 1..MaxInFlight |-> IdleReq]
    /\ last = NoResponse
    /\ applied = [id \in 1..MaxEvents |-> 0]
    /\ admitted = [u \in Users |-> 0]
    /\ resets = [u \in Users |-> 0]
    /\ users = [u \in Users |-> ""]
    /\ customers = [u \in Users |-> 0]
    /\ store = <<>>
    /\ minute = 0
    /\ windows = <<>>

InitWith(endpoints, secrets) ==
    /\ InitCommon
    /\ \E seed \in Seeds : subs = seed[1] /\ gw = seed[2]
    /\ webhookSecret \in secrets
    /\ endpoint \in endpoints

\* the deployed functions: the app as app.ts mounts it, and the Vercel function
Init == InitWith({EpStripe, EpBillingApp, EpVercel}, {"whsec", ""})

---------------------------------------------------------------------------
(* Authenticated requests. A handler runs from one await to the next in a step;
   reqs[s] holds its position (pc) and its local variables. *)

EpCalc == "/api/calculations"
EpCancel == "/api/subscriptions/cancel"
EpResume == "/api/subscriptions/resume"

InFlight == {s \in DOMAIN reqs : reqs[s].pc # "idle"}

\* prisma.subscription.findUnique({ where: { userId } }): the row, or nothing
findUnique(t, u) == [v \in {u} \cap DOMAIN t |-> t[v]]

\* authenticate: req.user.plan = user.subscription?.plan || 'FREE'
authenticate(t, u) == IF u \in DOMAIN t THEN t[u].plan ELSE "FREE"

\* the value of a property an object does not have
Undefined == "undefined"

\* req.user as authenticate (alias authenticateToken) sets it: { id, email, plan }
ReqUser(t, u) == [id |-> u, plan |-> authenticate(t, u)]

\* const userId = (req as any).user.userId
UserIdProperty(user) == IF "userId" \in DOMAIN user THEN user.userId ELSE Undefined

\* a where clause whose only key is undefined names no unique column, and the
\* client rejects the call
WhereUnique(userId) == userId # Undefined

Respond(s, ep, code) ==
    /\ reqs' = [reqs EXCEPT ![s] = IdleReq]
    /\ last' = Response(ep, code, FALSE)

Goto(s, pc) == reqs' = [reqs EXCEPT ![s].pc = pc]

\* a request as it arrives: user is the authenticated user, userId the handler's
\* variable of that name; pre is history, the user's row at that moment
Request(kind, u, userId, pc) ==
    [pc |-> pc, kind |-> kind, user |-> u, userId |-> userId, found |-> <<>>, at |-> now,
     sub |-> <<>>, pre |-> findUnique(subs, u)]

\* GET /subscription without a row: limits.calculations = { used: 0, limit: 3 }
DefaultCalculationsLimit == 3

\* subscription.calculationsUsed >= subscription.calculationsLimit
QuotaExceededOffByOne(row) == row.calculationsUsed > row.calculationsLimit

QuotaExceeded(row) == row.calculationsUsed >= row.calculationsLimit

\* POST /api/calculations: authenticate, then the check of the body
CalcStart(s, u, cap, bodyOk) ==
    /\ reqs[s].pc = "idle"
    /\ Cardinality(InFlight) < cap
    /\ calcs[u] + Cardinality(InFlight) < MaxCalcs
    /\ IF bodyOk
       THEN /\ reqs' = [reqs EXCEPT ![s] =
                          Request("calc", u, ReqUser(subs, u).id,
                                  IF ReqUser(subs, u).plan = "FREE"
                                  THEN "find" ELSE "create")]
            /\ UNCHANGED last
       ELSE Respond(s, EpCalc, 400)
    /\ UNCHANGED <<subs, calcs, now, gw, outbox, webhookSecret, endpoint,
                    users, customers, store, minute, windows, applied, admitted, resets>>

\* the row is read; the code up to the next await decides on it
CalcFind(s) ==
    LET u == reqs[s].userId
        subscription == findUnique(subs, u)
    IN /\ reqs[s].pc = "find"
       /\ reqs[s].kind = "calc"
       /\ IF u \notin DOMAIN subscription
          THEN reqs' = [reqs EXCEPT ![s].pc = "create"] /\ UNCHANGED last
          ELSE IF getMonth(now) # getMonth(subscription[u].currentPeriodStart)
          THEN /\ reqs' = [reqs EXCEPT ![s].pc = "reset", ![s].found = subscription,
                                       ![s].at = now]
               /\ UNCHANGED last
          ELSE IF QuotaExceeded(subscription[u])
          THEN Respond(s, EpCalc, 403)
          ELSE /\ reqs' = [reqs EXCEPT ![s].pc = "increment", ![s].found = subscription]
               /\ UNCHANGED last
       /\ UNCHANGED <<subs, calcs, now, gw, outbox, webhookSecret, endpoint,
                    users, customers, store, minute, windows, applied, admitted, resets>>

\* the reset moving the end of the period as well
CalcResetMovesPeriodEnd(s) ==
    LET u == reqs[s].userId
    IN /\ reqs[s].pc = "reset"
       /\ subs' = [subs EXCEPT ![u].calculationsUsed = 0,
                               ![u].currentPeriodStart = reqs[s].at,
                               ![u].currentPeriodEnd = reqs[s].at + ThirtyDays]
       /\ resets' = [resets EXCEPT ![u] = @ + 1]
       /\ Goto(s, "increment")
       /\ UNCHANGED <<calcs, now, gw, outbox, webhookSecret, endpoint,
                    users, customers, store, minute, windows, last, applied, admitted>>

\* update({ where: { id }, data: { calculationsUsed: 0, currentPeriodStart: new Date() } })
CalcReset(s) ==
    LET u == reqs[s].userId
    IN /\ reqs[s].pc = "reset"
       /\ subs' = [subs EXCEPT ![u].calculationsUsed = 0,
                               ![u].currentPeriodStart = reqs[s].at]
       /\ resets' = [resets EXCEPT ![u] = @ + 1]
       /\ Goto(s, "increment")
       /\ UNCHANGED <<calcs, now, gw, outbox, webhookSecret, endpoint,
                    users, customers, store, minute, windows, last, applied, admitted>>

\* the increment counting a creation twice
CalcIncrementByTwo(s) ==
    LET u == reqs[s].userId
    IN /\ reqs[s].pc = "increment"
       /\ subs' = [subs EXCEPT ![u].calculationsUsed = @ + 2]
       /\ admitted' = [admitted EXCEPT ![u] = @ + 1]
       /\ Goto(s, "create")
       /\ UNCHANGED <<calcs, now, gw, outbox, webhookSecret, endpoint,
                    users, customers, store, minute, windows, last, applied, resets>>

\* update({ where: { id }, data: { calculationsUsed: { increment: 1 } } })
CalcIncrement(s) ==
    LET u == reqs[s].userId
    IN /\ reqs[s].pc = "increment"
       /\ subs' = [subs EXCEPT ![u].calculationsUsed = @ + 1]
       /\ admitted' = [admitted EXCEPT ![u] = @ + 1]
       /\ Goto(s, "create")
       /\ UNCHANGED <<calcs, now, gw, outbox, webhookSecret, endpoint,
                    users, customers, store, minute, windows, last, applied, resets>>

\* prisma.calculation.create, the analytics event, 201
CalcCreate(s) ==
    LET u == reqs[s].userId
    IN /\ reqs[s].pc = "create"
       /\ calcs' = [calcs EXCEPT ![u] = @ + 1]
       /\ Respond(s, EpCalc, 201)
       /\ UNCHANGED <<subs, now, gw, outbox, webhookSecret, endpoint,
                    users, customers, store, minute, windows, applied, admitted, resets>>

\* prisma.calculation.create throws (the store fails): the catch passes the
\* error to the error middleware, which answers 500
CalcCreateFails(s) ==
    /\ reqs[s].pc = "create"
    /\ Respond(s, EpCalc, 500)
    /\ UNCHANGED <<subs, calcs, now, gw, outbox, webhookSecret, endpoint,
                    users, customers, store, minute, windows, applied, admitted, resets>>

\* POST /cancel and POST /resume: authenticateToken, then the handler takes
\* userId from req.user.userId, a property authenticate does not set, and awaits
\* findUnique
ActionStart(s, kind, u, cap) ==
    /\ reqs[s].pc = "idle"
    /\ Cardinality(InFlight) < cap
    /\ reqs' = [reqs EXCEPT ![s] =
                   Request(kind, u, UserIdProperty(ReqUser(subs, u)), "find")]
    /\ UNCHANGED <<subs, calcs, now, gw, outbox, webhookSecret, endpoint,
                    users, customers, store, minute, windows, last, applied, admitted, resets>>

\* if (!subscription || !subscription.stripeSubscriptionId): the column is
\* NOT NULL, so a row always has the id
CancelFind(s) ==
    LET u == reqs[s].userId
        subscription == findUnique(subs, u)
    IN /\ reqs[s].pc = "find"
       /\ reqs[s].kind = "cancel"
       /\ IF ~WhereUnique(u)
          THEN Respond(s, EpCancel, 500)
          ELSE IF u \notin DOMAIN subscription
          THEN Respond(s, EpCancel, 404)
          ELSE /\ reqs' = [reqs EXCEPT ![s].pc = "gateway", ![s].found = subscription]
               /\ UNCHANGED last
       /\ UNCHANGED <<subs, calcs, now, gw, outbox, webhookSecret, endpoint,
                    users, customers, store, minute, windows, applied, admitted, resets>>

\* the status /resume requires of the row it read
Resumable(row) == row.status = "CANCELLING"

ResumeFind(s) ==
    LET u == reqs[s].userId
        subscription == findUnique(subs, u)
    IN /\ reqs[s].pc = "find"
       /\ reqs[s].kind = "resume"
       /\ IF ~WhereUnique(u)
          THEN Respond(s, EpResume, 500)
          ELSE IF u \notin DOMAIN subscription
          THEN Respond(s, EpResume, 404)
          ELSE IF ~Resumable(subscription[u])
          THEN Respond(s, EpResume, 400)
          ELSE /\ reqs' = [reqs EXCEPT ![s].pc = "gateway", ![s].found = subscription]
               /\ UNCHANGED last
       /\ UNCHANGED <<subs, calcs, now, gw, outbox, webhookSecret, endpoint,
                    users, customers, store, minute, windows, applied, admitted, resets>>

\* the users whose gateway subscription has the id
OwnersOf(g, sid) == {v \in DOMAIN g : g[v].id = sid}

\* stripe.subscriptions.update(id, { cancel_at_period_end }): the gateway sets
\* the flag and emits customer.subscription.updated (while the model's outbox has
\* room); the call throws when the gateway knows no such subscription or cannot
\* be reached (answers = FALSE), and the error middleware answers 500
GatewayCall(s, answers) ==
    LET sid == reqs[s].found[reqs[s].userId].stripeSubscriptionId
        flag == reqs[s].kind = "cancel"
        ep == IF flag THEN EpCancel ELSE EpResume
    IN /\ reqs[s].pc = "gateway"
       /\ IF answers /\ OwnersOf(gw, sid) # {}
          THEN /\ gw' = [v \in DOMAIN gw |->
                           IF gw[v].id = sid
                           THEN [gw[v] EXCEPT !.cancel_at_period_end = flag]
                           ELSE gw[v]]
               /\ outbox' = IF Len(outbox) < MaxEvents
                            THEN Append(outbox,
                                        Event("customer.subscription.updated",
                                              gw'[CHOOSE v \in OwnersOf(gw, sid) : TRUE],
                                              "", ""))
                            ELSE outbox
               /\ reqs' = [reqs EXCEPT ![s].pc = "update", ![s].at = now]
               /\ UNCHANGED last
          ELSE /\ Respond(s, ep, 500)
               /\ UNCHANGED <<gw, outbox>>
       /\ UNCHANGED <<subs, calcs, now, webhookSecret, endpoint,
                    users, customers, store, minute, windows, applied, admitted, resets>>

\* update({ where: { id }, data: { status: 'CANCELLING', canceledAt: new Date() } })
CancelUpdate(s) ==
    LET u == reqs[s].userId
    IN /\ reqs[s].pc = "update"
       /\ reqs[s].kind = "cancel"
       /\ subs' = [subs EXCEPT ![u].status = "CANCELLING", ![u].canceledAt = reqs[s].at]
       /\ Respond(s, EpCancel, 200)
       /\ UNCHANGED <<calcs, now, gw, outbox, webhookSecret, endpoint,
                    users, customers, store, minute, windows, applied, admitted, resets>>

\* update({ where: { id }, data: { status: 'ACTIVE', canceledAt: null } })
ResumeUpdate(s) ==
    LET u == reqs[s].userId
    IN /\ reqs[s].pc = "update"
       /\ reqs[s].kind = "resume"
       /\ subs' = [subs EXCEPT ![u].status = "ACTIVE", ![u].canceledAt = Null]
       /\ Respond(s, EpResume, 200)
       /\ UNCHANGED <<calcs, now, gw, outbox, webhookSecret, endpoint,
                    users, customers, store, minute, windows, applied, admitted, resets>>

---------------------------------------------------------------------------
(* createOrUpdateSubscription in steps: the handler of a verified event awaits
   the gateway, then the upsert, which selects the row by userId and then
   updates or inserts. reqs[s] holds a running handler as it holds a request. *)

UpsertTypes == {"checkout.session.completed", "customer.subscription.updated"}

\* /webhook of the billing router receives event id, verifies it and fetches
\* what the handler needs from the gateway
UpsertStart(s, id) ==
    /\ reqs[s].pc = "idle"
    /\ Cardinality(InFlight) < MaxInFlight
    /\ id \in 1..Len(outbox)
    /\ endpoint = EpBilling
    /\ constructEvent(BodyAt(endpoint, outbox[id]), Sign(outbox[id], "whsec"), webhookSecret)
    /\ outbox[id].type \in UpsertTypes
    /\ applied[id] < MaxApply
    /\ LET e == outbox[id]
           checkout == e.type = "checkout.session.completed"
           userId == IF checkout THEN e.userId ELSE e.sub.customer
           snapshot == IF checkout THEN retrieve(gw, e.sub) ELSE e.sub
       IN reqs' = [reqs EXCEPT ![s] =
                      [Request("upsert", userId, userId, "select") EXCEPT !.sub = snapshot]]
    /\ applied' = [applied EXCEPT ![id] = @ + 1]
    /\ UNCHANGED <<subs, calcs, now, gw, outbox, webhookSecret, endpoint,
                    users, customers, store, minute, windows, last, admitted, resets>>

\* the upsert looks for the row of the user
UpsertSelect(s) ==
    /\ reqs[s].pc = "select"
    /\ reqs' = [reqs EXCEPT ![s].pc = "write", ![s].found = findUnique(subs, reqs[s].userId)]
    /\ UNCHANGED <<subs, calcs, now, gw, outbox, webhookSecret, endpoint,
                    users, customers, store, minute, windows, last, applied, admitted, resets>>

\* and updates the row it found, or inserts the row of the create branch
UpsertWrite(s) ==
    LET u == reqs[s].userId
        created == createOrUpdateSubscription(<<>>, u, reqs[s].sub)
        r == IF u \in DOMAIN reqs[s].found
             THEN createOrUpdateSubscription(subs, u, reqs[s].sub)
             ELSE IF created.ok THEN Insert(subs, u, created.subs[u])
             ELSE Thrown(subs)
    IN /\ reqs[s].pc = "write"
       /\ subs' = r.subs
       /\ Respond(s, EpBilling, IF r.ok THEN 200 ELSE 500)
       /\ UNCHANGED <<calcs, now, gw, outbox, webhookSecret, endpoint,
                    users, customers, store, minute, windows, applied, admitted, resets>>

---------------------------------------------------------------------------
(* POST /create-checkout of billing.routes.ts and getOrCreateStripeCustomer, a
   step from one await to the next. reqs[s].sub holds the customer id the
   request has in hand. *)

EpCheckout == "/api/billing/create-checkout"

\* the id the gateway gives the n-th customer created with metadata { userId }
CustomerId(u, n) == <<"cus", u, n>>

\* authenticate, the check of priceId, and the call of getOrCreateStripeCustomer
CheckoutStart(s, u, bodyOk) ==
    /\ reqs[s].pc = "idle"
    /\ IF bodyOk
       THEN /\ reqs' = [reqs EXCEPT ![s] = Request("checkout", u, ReqUser(subs, u).id, "user")]
            /\ UNCHANGED last
       ELSE Respond(s, EpCheckout, 400)
    /\ UNCHANGED <<subs, calcs, now, gw, outbox, webhookSecret, endpoint,
                    users, customers, store, minute, windows, applied, admitted, resets>>

\* prisma.user.findUnique, then if (user?.stripeCustomerId) return it
CheckoutFindUser(s) ==
    LET u == reqs[s].userId
    IN /\ reqs[s].pc = "user"
       /\ reqs' = IF users[u] # ""
                  THEN [reqs EXCEPT ![s].pc = "session", ![s].sub = users[u]]
                  ELSE [reqs EXCEPT ![s].pc = "customer"]
       /\ UNCHANGED <<subs, calcs, now, gw, outbox, webhookSecret, endpoint,
                       users, customers, store, minute, windows, last, applied, admitted,
                       resets>>

\* stripe.customers.create({ email, metadata: { userId } })
CheckoutCreateCustomer(s) ==
    LET u == reqs[s].userId
    IN /\ reqs[s].pc = "customer"
       /\ customers' = [customers EXCEPT ![u] = @ + 1]
       /\ reqs' = [reqs EXCEPT ![s].pc = "store", ![s].sub = CustomerId(u, customers[u] + 1)]
       /\ UNCHANGED <<subs, calcs, now, gw, outbox, webhookSecret, endpoint,
                       users, store, minute, windows, last, applied, admitted, resets>>

\* prisma.user.update({ where: { id }, data: { stripeCustomerId: customer.id } })
CheckoutStoreCustomer(s) ==
    LET u == reqs[s].userId
    IN /\ reqs[s].pc = "store"
       /\ users' = [users EXCEPT ![u] = reqs[s].sub]
       /\ Goto(s, "session")
       /\ UNCHANGED <<subs, calcs, now, gw, outbox, webhookSecret, endpoint,
                       customers, store, minute, windows, last, applied, admitted, resets>>

\* stripe.checkout.sessions.create({ customer: stripeCustomerId, ... }), 200
CheckoutSession(s) ==
    /\ reqs[s].pc = "session"
    /\ Respond(s, EpCheckout, 200)
    /\ UNCHANGED <<subs, calcs, now, gw, outbox, webhookSecret, endpoint,
                    users, customers, store, minute, windows, applied, admitted, resets>>

---------------------------------------------------------------------------
(* Specifications *)

\* Spec: the webhook endpoints under the gateway's events, delivered and
\* redelivered in any order, and forged requests
Next ==
    \/ \E u \in Users, price \in GwPrices, plan \in {"", "ENTERPRISE"} :
          GwCheckout(u, price, plan)
    \/ \E u \in Users, status \in GwStatuses : GwUpdate(u, status)
    \/ \E u \in Users, paid \in BOOLEAN : GwInvoice(u, paid)
    \/ \E u \in Users : GwDelete(u)
    \/ \E u \in Users : GwOther(u)
    \/ \E id \in 1..MaxEvents : Deliver(id)
    \/ \E id \in 1..MaxEvents : Forge(id)
    \/ Tick(1, MaxNow)

Spec == Init /\ [][Next]_vars

\* the endpoints that write the table: /stripe as mounted, and /webhook of the
\* billing router reached with the raw body
InitActions == InitWith({EpStripe, EpBilling}, {"whsec"})

\* SpecActions: /cancel and /resume, one request at a time, between the
\* gateway's events and their deliveries. No request gets past findUnique, so
\* GatewayCall, CancelUpdate and ResumeUpdate are never enabled and are no
\* disjuncts here.
NextActions ==
    \/ \E u \in Users, kind \in {"cancel", "resume"} : ActionStart(1, kind, u, 1)
    \/ CancelFind(1)
    \/ ResumeFind(1)
    \/ \E u \in Users, status \in GwStatuses : GwUpdate(u, status)
    \/ \E u \in Users, paid \in BOOLEAN : GwInvoice(u, paid)
    \/ \E u \in Users : GwDelete(u)
    \/ \E id \in 1..MaxEvents : Deliver(id)
    \/ Tick(1, MaxNow)

SpecActions == InitActions /\ [][NextActions]_vars

\* SpecMeter: calculation creations, one request at a time, over the months
\* and the years, with checkouts and their deliveries in between
NextMeter ==
    \/ \E u \in Users, bodyOk \in BOOLEAN : CalcStart(1, u, 1, bodyOk)
    \/ CalcFind(1)
    \/ CalcReset(1)
    \/ CalcIncrement(1)
    \/ CalcCreate(1)
    \/ \E u \in Users, price \in GwPrices, plan \in {"", "ENTERPRISE"} :
          GwCheckout(u, price, plan)
    \/ \E id \in 1..MaxEvents : Deliver(id)
    \/ \E d \in {1, 12} : MeterTick(d)

SpecMeter == InitActions /\ [][NextMeter]_vars

\* SpecConc: concurrent calculation creations, their steps interleaved
NextConc ==
    \/ \E s \in 1..MaxInFlight, u \in Users, bodyOk \in BOOLEAN :
          CalcStart(s, u, MaxInFlight, bodyOk)
    \/ \E s \in 1..MaxInFlight : CalcFind(s)
    \/ \E s \in 1..MaxInFlight : CalcReset(s)
    \/ \E s \in 1..MaxInFlight : CalcIncrement(s)
    \/ \E s \in 1..MaxInFlight : CalcCreate(s)
    \/ \E d \in {1, 12} : MeterTick(d)

SpecConc == InitActions /\ [][NextConc]_vars

\* SpecUpsert: the billing router's upserting handlers, their steps interleaved
InitUpsert == InitWith({EpBilling}, {"whsec"})

NextUpsert ==
    \/ \E u \in Users, price \in GwPrices : GwCheckout(u, price, "")
    \/ \E u \in Users, status \in GwStatuses : GwUpdate(u, status)
    \/ \E s \in 1..MaxInFlight, id \in 1..MaxEvents : UpsertStart(s, id)
    \/ \E s \in 1..MaxInFlight : UpsertSelect(s)
    \/ \E s \in 1..MaxInFlight : UpsertWrite(s)

SpecUpsert == InitUpsert /\ [][NextUpsert]_vars

\* SpecCross: a second user beside the first, with a row and a subscription of
\* their own; events about either subscription, and the cancel and resume
\* requests of either user
Neighbour == "u2"

Both == Users \cup {Neighbour}

InitCross ==
    /\ InitCommon
    /\ \E seed \in Seeds :
          /\ subs = seed[1] @@ createOrUpdateSubscription(<<>>, Neighbour,
                                                           PaidSnapshot(Neighbour)).subs
          /\ gw = seed[2] @@ (Neighbour :> PaidSnapshot(Neighbour))
    /\ webhookSecret = "whsec"
    /\ endpoint \in {EpStripe, EpBilling}

NextCross ==
    \/ \E u \in Users : GwCheckout(u, STRIPE_PRICE_ID_ENTERPRISE, "ENTERPRISE")
    \/ \E u \in Both : GwUpdate(u, "past_due")
    \/ \E u \in Both, paid \in BOOLEAN : GwInvoice(u, paid)
    \/ \E u \in Both : GwDelete(u)
    \/ \E id \in 1..MaxEvents : Deliver(id)
    \/ \E u \in Both, kind \in {"cancel", "resume"} : ActionStart(1, kind, u, 1)
    \/ CancelFind(1)
    \/ ResumeFind(1)

SpecCross == InitCross /\ [][NextCross]_vars

\* SpecFail: calculation creations, one request at a time, with a store that
\* can fail on prisma.calculation.create
NextFail ==
    \/ \E u \in Users, bodyOk \in BOOLEAN : CalcStart(1, u, 1, bodyOk)
    \/ CalcFind(1)
    \/ CalcReset(1)
    \/ CalcIncrement(1)
    \/ CalcCreate(1)
    \/ CalcCreateFails(1)
    \/ \E d \in {1, 12} : MeterTick(d)

SpecFail == InitActions /\ [][NextFail]_vars

\* SpecCheckout: concurrent and repeated create-checkout requests of a user
NextCheckout ==
    \/ \E s \in 1..MaxInFlight, u \in Users, bodyOk \in BOOLEAN : CheckoutStart(s, u, bodyOk)
    \/ \E s \in 1..MaxInFlight : CheckoutFindUser(s)
    \/ \E s \in 1..MaxInFlight : CheckoutCreateCustomer(s)
    \/ \E s \in 1..MaxInFlight : CheckoutStoreCustomer(s)
    \/ \E s \in 1..MaxInFlight : CheckoutSession(s)

SpecCheckout == InitActions /\ [][NextCheckout]_vars

---------------------------------------------------------------------------
(* Webhook ingress and reconciliation: C1 - C4, under Spec *)

\* C1: a delivery of an event whose handler has already run once (the same
\* externalEventId, at once or after other events) leaves every field of every
\* Subscription as it was.
C1_RedeliveryChangesNothing ==
    [][\A id \in 1..MaxEvents :
          (applied[id] >= 1 /\ applied'[id] > applied[id]) => subs' = subs]_vars

\* C2: no event handler runs more than once for one externalEventId: a
\* delivery of an id already seen is acknowledged without dispatch.
C2_HandlerRunsOncePerEvent == \A id \in 1..MaxEvents : applied[id] <= 1

\* the events of the claim: SubscriptionUpserted, PaymentFailed, PaymentSucceeded
C3Types == {"customer.subscription.updated", "invoice.payment_failed",
            "invoice.payment_succeeded"}

\* every event emitted is of C3Types and about u's subscription, and each has
\* been applied exactly once, in some order
C3_AllAppliedOnce(u) ==
    /\ outbox # <<>>
    /\ \A id \in 1..Len(outbox) :
          /\ outbox[id].type \in C3Types
          /\ outbox[id].sub.id = SubIdOf(u)
          /\ applied[id] = 1

\* the most recent canonical snapshot: the one the last emitted event carries
C3_Latest == outbox[Len(outbox)].sub

\* C3: once each event of a set of SubscriptionUpserted / PaymentFailed /
\* PaymentSucceeded events of one subscription has been delivered, in whatever
\* order, the Subscription's status is the one the most recent snapshot implies
\* (here for the snapshot statuses active and past_due, which every endpoint
\* maps alike).
C3_OrderIndependent ==
    \A u \in DOMAIN subs :
        ( /\ C3_AllAppliedOnce(u)
          /\ subs[u].stripeSubscriptionId = SubIdOf(u)
          /\ C3_Latest.status \in {"active", "past_due"} )
        => subs[u].status = toUpperCase(C3_Latest.status)

\* C4: no webhook request is acknowledged as received unless its signature
\* verified against the shared secret.
C4_AckOnlyIfVerified ==
    (last.ep \in Endpoints /\ last.code = 200) => last.verified

---------------------------------------------------------------------------
(* The usage meter: C5, C8, C9 under SpecMeter; C6, C7 under SpecConc *)

\* request s, a calculation creation of u, ends in this step
CalcEnds(s, u) ==
    /\ reqs[s].kind = "calc"
    /\ reqs[s].user = u
    /\ reqs[s].pc # "idle"
    /\ reqs'[s].pc = "idle"

\* the row the creation found on arrival lies in the current calendar period
\* and has a limit other than the unlimited sentinel
C5_Metered(s, u) ==
    /\ u \in DOMAIN reqs[s].pre
    /\ reqs[s].pre[u].calculationsLimit # -1
    /\ reqs[s].pre[u].currentPeriodStart = now

\* at the limit the creation fails with 403, creates nothing and leaves the
\* counter; below it the creation succeeds and the counter is one higher
C5_Boundary(s, u) ==
    LET row == reqs[s].pre[u]
    IN IF row.calculationsUsed >= row.calculationsLimit
       THEN /\ last' = Response(EpCalc, 403, FALSE)
            /\ calcs' = calcs
            /\ subs'[u].calculationsUsed = row.calculationsUsed
       ELSE /\ last' = Response(EpCalc, 201, FALSE)
            /\ calcs'[u] = calcs[u] + 1
            /\ subs'[u].calculationsUsed = row.calculationsUsed + 1

C6_NoOvershoot ==
    \A u \in DOMAIN subs :
        subs[u].calculationsLimit # -1
        => subs[u].calculationsUsed <= subs[u].calculationsLimit

\* C7: when the concurrent creations of a period that began with a rollover
\* have all completed, the counter was reset exactly once and calculationsUsed
\* is the number of creations admitted in the period.
C7_ResetOnce ==
    \A u \in DOMAIN subs :
        (Quiescent /\ resets[u] >= 1)
        => (resets[u] = 1 /\ subs[u].calculationsUsed = admitted[u])

\* C8: calculationsUsed is reset at most once in a calendar period, whatever
\* creations and webhook events follow the reset.
C8_ResetAtMostOncePerPeriod == \A u \in Users : resets[u] <= 1

\* after the reset of this period an upsert put the gateway's earlier period
\* start into the row, and a creation that came after it has completed
C8_Witness ==
    \E u \in DOMAIN subs :
        /\ resets[u] = 1
        /\ getMonth(subs[u].currentPeriodStart) # getMonth(now)
        /\ last = Response(EpCalc, 201, FALSE)

---------------------------------------------------------------------------
(* The customer's resume request: C10, under SpecActions *)

\* request s, a resume request of u, ends in this step
ResumeEnds(s, u) ==
    /\ reqs[s].kind = "resume"
    /\ reqs[s].user = u
    /\ reqs[s].pc # "idle"
    /\ reqs'[s].pc = "idle"

---------------------------------------------------------------------------
(* The customer's cancel request: C11, under SpecActions *)

\* request s, a cancel request of u, ends in this step
CancelEnds(s, u) ==
    /\ reqs[s].kind = "cancel"
    /\ reqs[s].user = u
    /\ reqs[s].pc # "idle"
    /\ reqs'[s].pc = "idle"

\* C11: a cancel request of a user with a row asks the gateway to flag
\* cancel-at-period-end and only then sets the status CANCELLING and canceledAt
\* to the time of the request, answering 200; when the gateway call fails, or
\* the user has no row, the request ends in an error and the table is as it was.
C11_CancelAsksGatewayFirst ==
    [][\A s \in DOMAIN reqs, u \in Users :
          CancelEnds(s, u) =>
             IF u \in DOMAIN reqs[s].pre
             THEN \/ /\ reqs[s].pc = "update"
                     /\ \A v \in OwnersOf(gw, subs[u].stripeSubscriptionId) :
                           gw[v].cancel_at_period_end
                     /\ subs' = [subs EXCEPT ![u].status = "CANCELLING",
                                             ![u].canceledAt = reqs[s].at]
                     /\ last' = Response(EpCancel, 200, FALSE)
                  \/ /\ reqs[s].pc = "gateway"
                     /\ subs' = subs /\ gw' = gw /\ outbox' = outbox
                     /\ last' = Response(EpCancel, 500, FALSE)
             ELSE /\ reqs[s].pc = "find"
                  /\ subs' = subs /\ gw' = gw /\ outbox' = outbox
                  /\ last'.ep = EpCancel
                  /\ last'.code >= 400]_vars

---------------------------------------------------------------------------
(* Event types and the plan catalog: C12, C13, under Spec *)

\* the gateway's delivery of event id reaches an endpoint that has the secret
\* the gateway signs with
SignedDelivery(id) ==
    /\ Deliver(id)
    /\ webhookSecret = "whsec"

\* C12: a correctly signed delivery of an event whose type the endpoint has no
\* case for is answered 200 and changes no row.
C12_UnhandledTypeAcknowledged ==
    [][\A id \in 1..MaxEvents :
          (SignedDelivery(id) /\ outbox[id].type \notin CasesOf(endpoint))
          => (last'.code = 200 /\ subs' = subs)]_vars

\* the snapshot an upserting event carries or, for a completed checkout, refers to
C13_Snapshot(e) ==
    IF e.type = "checkout.session.completed" THEN retrieve(gw, e.sub) ELSE e.sub

C13_Catalog == {STRIPE_PRICE_ID_PRO, STRIPE_PRICE_ID_TEAM, STRIPE_PRICE_ID_ENTERPRISE}

\* C13: a correctly signed checkout.session.completed or
\* customer.subscription.updated event whose snapshot has a price id outside the
\* catalog is answered 200, and the user's row then has the default tier's plan
\* and limits.
C13_UnmappedPriceGetsDefault ==
    [][\A id \in 1..MaxEvents :
          (/\ SignedDelivery(id)
           /\ outbox[id].type \in {"checkout.session.completed",
                                   "customer.subscription.updated"}
           /\ C13_Snapshot(outbox[id]).price \notin C13_Catalog)
          => LET u == outbox[id].sub.customer
             IN /\ last'.code = 200
                /\ u \in DOMAIN subs'
                /\ subs'[u].plan = "PRO"
                /\ subs'[u].calculationsLimit = 999999
                /\ subs'[u].apiCallsLimit = 1000]_vars

---------------------------------------------------------------------------
(* Serialisation of the writers of a row: C14, under SpecConc *)

\* C14, for the usage meter's reset: when a calculation creation writes the
\* reset it decided on from the row it read, the row is still the row it read
\* (no other handler has written it in between).
C14_NoWriteBetweenReadAndWrite ==
    [][\A s \in DOMAIN reqs :
          CalcReset(s) => subs[reqs[s].userId] = reqs[s].found[reqs[s].userId]]_vars

---------------------------------------------------------------------------
(* The version counter: C15, under Spec *)

\* C15: every step that changes a row finds a version counter in it and
\* leaves the counter higher than it was.
C15_VersionIncreasesOnMutation ==
    [][\A u \in DOMAIN subs \cap DOMAIN subs' :
          subs'[u] # subs[u]
          => /\ "version" \in DOMAIN subs[u] \cap DOMAIN subs'[u]
             /\ subs'[u].version > subs[u].version]_vars

---------------------------------------------------------------------------
(* One row per user: C16, under SpecUpsert *)

\* C16: no two rows of the table belong to the same user.
C16_OneRowPerUser ==
    \A k1, k2 \in DOMAIN subs : UserOf(k1) = UserOf(k2) => k1 = k2

\* an upsert that found no row is about to insert, and a concurrent upsert has
\* inserted the user's row in the meantime
C16_Witness ==
    \E s \in DOMAIN reqs :
        /\ reqs[s].kind = "upsert"
        /\ reqs[s].pc = "write"
        /\ reqs[s].found = <<>>
        /\ reqs[s].userId \in DOMAIN subs

---------------------------------------------------------------------------
(* Users without a row: C17, under SpecMeter *)

\* C17: a user without a row who has created DefaultCalculationsLimit
\* calculations in the current period (the first: no month has passed) is
\* refused the next one with 403, and no calculation is created.
C17_NoRowMeansFreeQuota ==
    [][\A s \in DOMAIN reqs, u \in Users :
          (/\ CalcEnds(s, u)
           /\ u \notin DOMAIN reqs[s].pre
           /\ u \notin DOMAIN subs
           /\ now = 0
           /\ calcs[u] >= DefaultCalculationsLimit)
          => (last' = Response(EpCalc, 403, FALSE) /\ calcs' = calcs)]_vars

---------------------------------------------------------------------------
(* Store failures: C18, under Spec *)

\* C18: a verified delivery whose handler has a store call rejected is
\* answered with a server error.
C18_StoreFailureIsServerError ==
    [][\A id \in 1..MaxEvents :
          (/\ SignedDelivery(id)
           /\ constructEvent(BodyAt(endpoint, outbox[id]), Sign(outbox[id], "whsec"),
                             webhookSecret)
           /\ ~SwitchOf(endpoint, subs, gw, outbox[id], now).ok)
          => last'.code >= 500]_vars

---------------------------------------------------------------------------
(* What a subscription update writes: C19, C20, under Spec *)

\* a correctly signed customer.subscription.updated that the endpoint has
\* acknowledged, for a subscription a row of the table mirrors
C19_AppliedUpdate(id, u) ==
    /\ SignedDelivery(id)
    /\ outbox[id].type = "customer.subscription.updated"
    /\ last'.code = 200
    /\ last'.verified
    /\ u \in DOMAIN subs
    /\ subs[u].stripeSubscriptionId = outbox[id].sub.id

\* the status mapping as specified
C19_Mapped(status) ==
    CASE status = "active" -> "ACTIVE"
      [] status = "canceled" -> "CANCELED"
      [] status = "past_due" -> "PAST_DUE"
      [] status = "trialing" -> "TRIALING"
      [] OTHER -> "INACTIVE"

\* C19: an applied customer.subscription.updated leaves the row with the status
\* the specified mapping gives for the snapshot's status.
C19_StatusMapping ==
    [][\A id \in 1..MaxEvents, u \in Users :
          C19_AppliedUpdate(id, u)
          => subs'[u].status = C19_Mapped(outbox[id].sub.status)]_vars

\* C20: an applied customer.subscription.updated leaves the row with the
\* snapshot's period, cancel-at-period-end flag and price id, and with the plan
\* and limits of the catalog for that price id.
C20_SnapshotOverwrites ==
    [][\A id \in 1..MaxEvents, u \in Users :
          C19_AppliedUpdate(id, u)
          => LET snapshot == outbox[id].sub
                 row == subs'[u]
             IN /\ row.currentPeriodStart = snapshot.current_period_start
                /\ row.currentPeriodEnd = snapshot.current_period_end
                /\ row.cancelAtPeriodEnd = snapshot.cancel_at_period_end
                /\ row.stripePriceId = snapshot.price
                /\ row.plan = planMapping(snapshot.price).plan
                /\ row.calculationsLimit = planMapping(snapshot.price).calculationsLimit
                /\ row.apiCallsLimit = planMapping(snapshot.price).apiCallsLimit]_vars

---------------------------------------------------------------------------
(* What each event writes: C21..C24, under Spec *)

\* a correctly signed event of the type that a webhook route of the app has
\* acknowledged
AppliedDelivery(id, type) ==
    /\ SignedDelivery(id)
    /\ endpoint # EpVercel
    /\ outbox[id].type = type
    /\ last'.code = 200
    /\ last'.verified

\* C21: an applied checkout.session.completed leaves the user's row ACTIVE, with
\* the period dates of the gateway's current snapshot and the plan and limits of
\* the catalog for the snapshot's price id.
C21_CheckoutUpsertsSnapshot ==
    [][\A id \in 1..MaxEvents :
          (AppliedDelivery(id, "checkout.session.completed") /\ outbox[id].userId # "")
          => LET u == outbox[id].userId
                 snapshot == retrieve(gw, outbox[id].sub)
                 planConfig == planMapping(snapshot.price)
             IN /\ u \in DOMAIN subs'
                /\ subs'[u].status = "ACTIVE"
                /\ subs'[u].currentPeriodStart = snapshot.current_period_start
                /\ subs'[u].currentPeriodEnd = snapshot.current_period_end
                /\ subs'[u].plan = planConfig.plan
                /\ subs'[u].calculationsLimit = planConfig.calculationsLimit
                /\ subs'[u].apiCallsLimit = planConfig.apiCallsLimit]_vars

\* the rows the event's subscription id selects
Matching(id) == RowsOfSubId(subs, outbox[id].sub.id)

\* C22: an applied customer.subscription.deleted leaves every matching row with
\* status CANCELED and canceledAt the current time.
C22_DeletedSetsCanceled ==
    [][\A id \in 1..MaxEvents :
          AppliedDelivery(id, "customer.subscription.deleted")
          => \A u \in Matching(id) :
                /\ subs'[u].status = "CANCELED"
                /\ subs'[u].canceledAt = now]_vars

\* C23: an applied invoice.payment_succeeded leaves every matching row with
\* status ACTIVE and lastPaymentAt the current time.
C23_PaymentSucceededSetsActive ==
    [][\A id \in 1..MaxEvents :
          AppliedDelivery(id, "invoice.payment_succeeded")
          => \A u \in Matching(id) :
                /\ subs'[u].status = "ACTIVE"
                /\ subs'[u].lastPaymentAt = now]_vars

\* C24: an applied invoice.payment_failed leaves every matching row as it was but
\* for its status, which is PAST_DUE, and every other row as it was.
C24_PaymentFailedSetsOnlyStatus ==
    [][\A id \in 1..MaxEvents :
          AppliedDelivery(id, "invoice.payment_failed")
          => /\ DOMAIN subs' = DOMAIN subs
             /\ \A u \in DOMAIN subs :
                   subs'[u] = IF u \in Matching(id)
                              THEN [subs[u] EXCEPT !.status = "PAST_DUE"]
                              ELSE subs[u]]_vars

\* a failed payment has been applied to a row that was cancelling
C24_Witness ==
    \E id \in 1..Len(outbox), u \in DOMAIN subs :
       /\ outbox[id].type = "invoice.payment_failed"
       /\ applied[id] > 0
       /\ last.code = 200
       /\ last.verified
       /\ subs[u].stripeSubscriptionId = outbox[id].sub.id
       /\ subs[u].status = "PAST_DUE"
       /\ subs[u].canceledAt # Null

---------------------------------------------------------------------------
(* The status of a row: C25, C26, under Spec *)

C25_NoRecord == "(no record)"

\* the edges of the stated graph
C25_Edges ==
    { <<C25_NoRecord, "ACTIVE">>,
      <<"ACTIVE", "CANCELLING">>, <<"CANCELLING", "CANCELED">>, <<"CANCELLING", "ACTIVE">>,
      <<"ACTIVE", "PAST_DUE">>, <<"PAST_DUE", "ACTIVE">>,
      <<"ACTIVE", "TRIALING">>, <<"TRIALING", "ACTIVE">> }

C25_StatusIn(t, u) == IF u \in DOMAIN t THEN t[u].status ELSE C25_NoRecord

\* C25: in every step the status of a user's row stays as it is or moves along
\* an edge of the stated graph.
C25_StatusFollowsGraph ==
    [][\A u \in Users :
          \/ C25_StatusIn(subs', u) = C25_StatusIn(subs, u)
          \/ <<C25_StatusIn(subs, u), C25_StatusIn(subs', u)>> \in C25_Edges]_vars

\* C26: every row's plan is one of FREE, PRO, TEAM, ENTERPRISE and its status one
\* of ACTIVE, CANCELLING, CANCELED, PAST_DUE, TRIALING, INACTIVE.
C26_PlanAndStatusInDomain ==
    \A u \in DOMAIN subs :
        /\ subs[u].plan \in {"FREE", "PRO", "TEAM", "ENTERPRISE"}
        /\ subs[u].status \in {"ACTIVE", "CANCELLING", "CANCELED", "PAST_DUE", "TRIALING",
                               "INACTIVE"}

---------------------------------------------------------------------------
(* The usage meter again: C27, C28 under SpecMeter; C29 under SpecConc *)

\* C27: a creation that finds a row of plan FREE, with a limit other than the
\* unlimited sentinel, whose currentPeriodStart is in another calendar period
\* than now (another month, or the same month of another year) leaves
\* currentPeriodStart at now and calculationsUsed at 1 when it succeeds, at 0 when
\* it is refused.
C27_RolloverResetsBeforeQuota ==
    [][\A s \in DOMAIN reqs, u \in Users :
          (/\ CalcEnds(s, u)
           /\ u \in DOMAIN reqs[s].pre
           /\ reqs[s].pre[u].plan = "FREE"
           /\ reqs[s].pre[u].calculationsLimit # -1
           /\ reqs[s].pre[u].currentPeriodStart # now)
          => /\ subs'[u].currentPeriodStart = now
             /\ subs'[u].calculationsUsed = IF last'.code = 201 THEN 1 ELSE 0]_vars

\* calculationsUsed after the rollover the creation's handler applies, if any
C28_Base(row) ==
    IF getMonth(now) # getMonth(row.currentPeriodStart) THEN 0 ELSE row.calculationsUsed

\* a creation of a user with a row succeeds
C28_Created(s, u) ==
    /\ CalcEnds(s, u)
    /\ u \in DOMAIN reqs[s].pre
    /\ last' = Response(EpCalc, 201, FALSE)

\* C28 as claimed: every successful creation of a user with a row leaves
\* calculationsUsed one higher, whatever the plan.
C28_MeteredAnyPlan ==
    [][\A s \in DOMAIN reqs, u \in Users :
          C28_Created(s, u)
          => subs'[u].calculationsUsed = C28_Base(reqs[s].pre[u]) + 1]_vars

\* C28 as amended: every successful creation of a user whose row has plan FREE
\* leaves calculationsUsed one higher (than 0 when the month has changed); a
\* creation of a user whose row has another plan leaves calculationsUsed as it
\* is and is never refused for quota.
C28_MeteredFreeOnly ==
    [][\A s \in DOMAIN reqs, u \in Users :
          /\ (C28_Created(s, u) /\ reqs[s].pre[u].plan = "FREE")
             => subs'[u].calculationsUsed = C28_Base(reqs[s].pre[u]) + 1
          /\ (CalcEnds(s, u) /\ u \in DOMAIN reqs[s].pre /\ reqs[s].pre[u].plan # "FREE")
             => /\ subs'[u].calculationsUsed = reqs[s].pre[u].calculationsUsed
                /\ last'.code # 403]_vars

\* a row metered once while FREE, upgraded by a checkout, and not metered by the
\* creation that followed
C28_Witness ==
    \E u \in DOMAIN subs :
        /\ subs[u].plan # "FREE"
        /\ subs[u].calculationsUsed = 1
        /\ calcs[u] = 2
        /\ last = Response(EpCalc, 201, FALSE)

\* a step of a calculation creation
C29_CalcStep == \E s \in DOMAIN reqs : reqs[s].kind = "calc" /\ reqs'[s] # reqs[s]

\* C29: a step of a calculation creation leaves every row as it was, but for
\* calculationsUsed and currentPeriodStart, and adds or removes no row.
C29_MeterFrame ==
    [][C29_CalcStep
       => /\ DOMAIN subs' = DOMAIN subs
          /\ \A u \in DOMAIN subs :
                subs'[u] = [subs[u] EXCEPT
                               !.calculationsUsed = subs'[u].calculationsUsed,
                               !.currentPeriodStart = subs'[u].currentPeriodStart]]_vars

\* a creation has reset the counter, advanced the period start and counted itself
C29_Witness ==
    \E u \in DOMAIN subs :
        /\ resets[u] > 0
        /\ admitted[u] > 0
        /\ now > 0
        /\ subs[u].currentPeriodStart = now
        /\ subs[u].calculationsUsed > 0
        /\ last = Response(EpCalc, 201, FALSE)

---------------------------------------------------------------------------
(* Two users: C30, under SpecCross *)

\* the rows of the users other than u are as they were, and none was added
C30_OthersUntouched(u) ==
    \A v \in Both \ {u} :
       /\ v \in DOMAIN subs' <=> v \in DOMAIN subs
       /\ v \in DOMAIN subs => subs'[v] = subs[v]

\* C30: the delivery of an event about one user's subscription, and a step of a
\* request of one user, leave the rows of every other user as they were.
C30_CrossUserIndependence ==
    [][/\ \A id \in 1..MaxEvents :
             Deliver(id) => C30_OthersUntouched(outbox[id].sub.customer)
       /\ \A s \in DOMAIN reqs :
             reqs'[s] # reqs[s]
             => C30_OthersUntouched(IF reqs[s].pc = "idle" THEN reqs'[s].user
                                    ELSE reqs[s].user)]_vars

\* an event about each of the two subscriptions has been applied to its row
C30_Witness ==
    /\ Users \cup {Neighbour} \subseteq DOMAIN subs
    /\ \A id \in 1..MaxEvents : applied[id] > 0
    /\ \E u \in Users :
          /\ subs[u].status = "PAST_DUE"
          /\ subs[Neighbour].status \in {"CANCELED", "CANCELLED"}

---------------------------------------------------------------------------
(* The body given to verification: C31, under Spec *)

\* C31: a correctly signed delivery to an endpoint app.ts mounts passes
\* verification.
C31_SignedDeliveryVerifies ==
    [][\A id \in 1..MaxEvents :
          (SignedDelivery(id) /\ endpoint \in {EpStripe, EpBillingApp})
          => last'.verified]_vars

---------------------------------------------------------------------------
(* Rows coming into existence: C32, under SpecCross *)

\* the delivery of an event of one of the types, about u's subscription
C32_DeliveredFor(u, types) ==
    \E id \in 1..MaxEvents :
       /\ Deliver(id)
       /\ outbox[id].type \in types
       /\ outbox[id].sub.customer = u

\* in this step every row that comes into existence does so by the delivery of
\* an event of one of the types, and no row goes out of existence
C32_CreatedOnlyBy(types) ==
    /\ DOMAIN subs \subseteq DOMAIN subs'
    /\ \A u \in DOMAIN subs' \ DOMAIN subs : C32_DeliveredFor(u, types)

---------------------------------------------------------------------------
(* The snapshot that confirms a cancellation: C33, under SpecActions *)

---------------------------------------------------------------------------
(* Events about a subscription without a row: C34, under SpecCross *)

C34_Types ==
    {"customer.subscription.deleted", "invoice.payment_failed", "invoice.payment_succeeded"}

\* C34: a correctly signed customer.subscription.deleted, invoice.payment_failed
\* or invoice.payment_succeeded whose subscription id no row holds is answered
\* 200 and leaves the table as it is.
C34_NoRowIsAcknowledged ==
    [][\A id \in 1..MaxEvents :
          (/\ SignedDelivery(id)
           /\ outbox[id].type \in C34_Types
           /\ Matching(id) = {})
          => /\ last'.code = 200
             /\ subs' = subs]_vars

---------------------------------------------------------------------------
(* The two routers compared: C35, under Spec *)

\* C35: while no event has been applied, so that either router would be in this
\* state, each event the gateway has emitted leaves the table the same whether
\* the switch of /stripe or the switch of /webhook handles it.
C35_EndpointsEquivalent ==
    (\A id \in 1..MaxEvents : applied[id] = 0)
    => \A id \in 1..Len(outbox) :
          StripeSwitch(subs, outbox[id], now).subs = BillingSwitch(subs, gw, outbox[id]).subs

---------------------------------------------------------------------------
(* The gateway's customers: C36, under SpecCheckout *)

\* C36: at most one customer is created at the gateway for a user, and a
\* checkout session is created with the customer id the user's row stores.
C36_OneCustomerPerUser ==
    [][/\ \A u \in Users : customers'[u] <= 1
       /\ \A s \in DOMAIN reqs :
             CheckoutSession(s) => reqs[s].sub = users[reqs[s].userId]]_vars

---------------------------------------------------------------------------
(* Usage charged for what was created: C37, under SpecFail *)

\* C37: a creation of a user with a row that ends without creating the
\* calculation leaves calculationsUsed uncharged: at its value on arrival, or at
\* 0 when the month's reset was due.
C37_ChargedOnlyWhenCreated ==
    [][\A s \in DOMAIN reqs, u \in Users :
          (/\ CalcEnds(s, u)
           /\ u \in DOMAIN reqs[s].pre
           /\ calcs'[u] = calcs[u])
          => subs'[u].calculationsUsed = C28_Base(reqs[s].pre[u])]_vars

---------------------------------------------------------------------------
(* The plan catalog: C38, under Spec *)

\* C38: the plan of every row has an entry in PLANS, whose limits are the row's;
\* the limit presented for a user without a row is that of PLANS for FREE.
C38_CatalogConsistent ==
    /\ \A u \in DOMAIN subs :
          /\ subs[u].plan \in DOMAIN PLANS
          /\ PLANS[subs[u].plan].limits.calculations = subs[u].calculationsLimit
          /\ PLANS[subs[u].plan].limits.apiCalls = subs[u].apiCallsLimit
    /\ \A u \in Users \ DOMAIN subs :
          PLANS["FREE"].limits.calculations = DefaultCalculationsLimit

---------------------------------------------------------------------------
(* rateLimiter.middleware.ts: the limiter in front of every /api route *)

EpApi == "/api"

\* req.ip of the requests
Ips == {"10.0.0.1"}

\* const identifier = req.ip || 'unknown'
identifier(ip) == IF ip = Undefined THEN "unknown" ELSE ip

\* const windowMs = 60 * 1000, one minute of the clock
windowMs == 1

maxRequests == 100

\* the period of the cleanup timer: 5 * 60 * 1000
cleanupInterval == 5

\* store[key].resetTime < now
Expired(entry, t) == entry.resetTime < t

TooManyPlusOne(count) == count > maxRequests + 1

\* store[identifier].count > maxRequests
TooMany(count) == count > maxRequests

\* history: the window of the identifier at time t is a new one when it has none,
\* or when the one it has was opened more than windowMs ago
NewWindow(id, t) == id \notin DOMAIN windows \/ t > windows[id].opened + windowMs

\* history: the request at time t is counted in its window
Counted(id, t, passed, is429) ==
    IF NewWindow(id, t)
    THEN [opened |-> t, passed |-> IF passed THEN 1 ELSE 0,
          refused |-> IF id \in DOMAIN windows THEN windows[id].refused ELSE FALSE,
          swept |-> id \in DOMAIN windows /\ id \notin DOMAIN store]
    ELSE [windows[id] EXCEPT !.passed = @ + (IF passed THEN 1 ELSE 0),
                             !.refused = @ \/ is429]

Record(id, entry) == [k \in DOMAIN store \cup {id} |-> IF k = id THEN entry ELSE store[k]]

Note(id, w) == [k \in DOMAIN windows \cup {id} |-> IF k = id THEN w ELSE windows[k]]

\* one request through the middleware
rateLimiter(ip) ==
    LET id == identifier(ip) IN
    /\ id \in DOMAIN store => store[id].count < maxRequests + MaxOver
    /\ IF id \notin DOMAIN store \/ Expired(store[id], minute)
       THEN /\ store' = Record(id, [count |-> 1, resetTime |-> minute + windowMs])
            /\ windows' = Note(id, Counted(id, minute, TRUE, FALSE))
            /\ UNCHANGED last
       ELSE LET count == store[id].count + 1 IN
            /\ store' = Record(id, [store[id] EXCEPT !.count = count])
            /\ IF TooMany(count)
               THEN /\ last' = Response(EpApi, 429, FALSE)
                    /\ windows' = Note(id, Counted(id, minute, FALSE, TRUE))
               ELSE /\ UNCHANGED last
                    /\ windows' = Note(id, Counted(id, minute, TRUE, FALSE))
    /\ UNCHANGED <<subs, calcs, now, gw, outbox, webhookSecret, endpoint,
                    users, customers, minute, reqs, applied, admitted, resets>>

\* the callback of setInterval
Cleanup ==
    /\ minute > 0
    /\ minute % cleanupInterval = 0
    /\ store' = [k \in {k \in DOMAIN store : ~Expired(store[k], minute)} |-> store[k]]
    /\ UNCHANGED <<subs, calcs, now, gw, outbox, webhookSecret, endpoint,
                    users, customers, minute, windows, reqs, last, applied, admitted,
                    resets>>

\* a minute passes
LimiterTick ==
    /\ minute < MaxMinute
    /\ minute' = minute + 1
    /\ UNCHANGED <<subs, calcs, now, gw, outbox, webhookSecret, endpoint,
                    users, customers, store, windows, reqs, last, applied, admitted,
                    resets>>

NextLimiter ==
    \/ \E ip \in Ips : rateLimiter(ip)
    \/ Cleanup
    \/ LimiterTick

SpecLimiter == InitActions /\ [][NextLimiter]_vars

\* no window has more than maxRequests requests passed on
C39_AtMostMaxPassed == \A id \in DOMAIN windows : windows[id].passed <= maxRequests

\* a request in a window that has maxRequests passed on is answered 429
C39_FurtherRefused ==
    \A ip \in Ips :
       LET id == identifier(ip) IN
       (rateLimiter(ip) /\ ~NewWindow(id, minute) /\ windows[id].passed = maxRequests)
       => last'.code = 429 /\ windows'[id].passed = maxRequests

\* the first request after the window has expired is passed on and opens a window
\* with count 1, the old entry swept or not
C39_ExpiryOpensWindow ==
    \A ip \in Ips :
       LET id == identifier(ip) IN
       (rateLimiter(ip) /\ id \in DOMAIN windows /\ NewWindow(id, minute))
       => /\ windows'[id] = [opened |-> minute, passed |-> 1,
                             refused |-> windows[id].refused,
                             swept |-> id \notin DOMAIN store]
          /\ store'[id] = [count |-> 1, resetTime |-> minute + windowMs]
          /\ last' = last

\* C39: per identifier, at most maxRequests requests of a window are passed on and
\* the further ones are answered 429; the first request after the window's expiry
\* is passed on and opens a window with count 1, whether the cleanup removed the
\* old entry or not.
C39_RateLimiter ==
    [][C39_AtMostMaxPassed' /\ C39_FurtherRefused /\ C39_ExpiryOpensWindow]_vars

\* a window opened by the first request after the expiry of one in which a request
\* was refused, its entry swept by the cleanup
C39_Witness ==
    /\ "10.0.0.1" \in DOMAIN windows
    /\ windows["10.0.0.1"] = [opened |-> cleanupInterval, passed |-> 1,
                              refused |-> TRUE, swept |-> TRUE]

====
